---- MODULE Spec2Model ----
(***************************************************************************)
(* A model of finalcode.py, the Boston Airbnb dashboard: the cached        *)
(* load_data, the module-level tables, filter_listings, the neighbourhood  *)
(* summary, the map view state and the top-20 selection.  One script run   *)
(* (Streamlit re-executes the whole file on every interaction) is one      *)
(* action.                                                                 *)
(*                                                                         *)
(* Numbers.  A pandas float is modelled exactly, as a fraction [n, d] in   *)
(* lowest terms with d > 0; d = 0 encodes the IEEE specials: 1/0 is inf,   *)
(* -1/0 is -inf and 0/0 is NaN.  Rounding is not modelled.                 *)
(* Cells.  A raw cell is a non-empty sequence of one-character strings;    *)
(* only reviews_per_month may be missing in a file.                        *)
(***************************************************************************)
EXTENDS Integers, Sequences, FiniteSets, TLC

VARIABLES
    files,                 \* the three CSV files on disk
    cache,                 \* st.cache_data's store for load_data: key -> entry
    cache_hit,             \* the last run's load_data call was served from the store
    listings,              \* module globals assigned at line 47
    reviews,
    neighborhoods,
    errors,                \* st.error messages shown by the last run
    section,               \* st.sidebar.radio
    neighborhood,          \* st.sidebar.selectbox
    price_range,           \* st.sidebar.slider
    metrics,               \* mean_price and max_price of the overview
    neighborhood_summary,
    filtered_listings,
    view_state,
    sorted_listings,
    top_n,                 \* the argument of head()
    top_listings,          \* sorted_listings.head(top_n), the bar chart's data
    ops,                   \* the DataFrame operations the last run invoked on listings
    exception              \* the exception that ended the last run, or "none"

vars == <<files, cache, cache_hit, listings, reviews, neighborhoods, errors, section,
          neighborhood, price_range, metrics, neighborhood_summary, filtered_listings,
          view_state, sorted_listings, top_n, top_listings, ops, exception>>

----------------------------------------------------------------------------
(* Bounds of the model. *)

MaxRows == 2
MaxLen == 3
MaxQueryRows == 3

(* Python's None, a name the run has not bound, and a DataFrame of rows. *)
None == [type |-> "NoneType"]
Unset == [type |-> "unbound"]
DataFrame(rows) == [type |-> "DataFrame", rows |-> rows]
IsFrame(x) == x.type = "DataFrame"
IsNone(x) == x.type = "NoneType"

----------------------------------------------------------------------------
(* Floats. *)

Abs(x) == IF x < 0 THEN -x ELSE x

Sign(x) == IF x > 0 THEN 1 ELSE IF x < 0 THEN -1 ELSE 0

RECURSIVE GCD(_, _)
GCD(a, b) == IF b = 0 THEN a ELSE GCD(b, a % b)

Norm(n, d) ==
    IF d = 0 THEN [n |-> Sign(n), d |-> 0]
    ELSE LET g == GCD(Abs(n), Abs(d))
             s == Sign(d)
         IN [n |-> (s * n) \div g, d |-> (s * d) \div g]

NaN == [n |-> 0, d |-> 0]
Inf == [n |-> 1, d |-> 0]
NegInf == [n |-> -1, d |-> 0]

IsNaN(a) == a.n = 0 /\ a.d = 0

Float(i) == [n |-> i, d |-> 1]

FAdd(a, b) ==
    IF a.d = 0 \/ b.d = 0
    THEN IF IsNaN(a) \/ IsNaN(b) THEN NaN
         ELSE IF a.d = 0 /\ b.d = 0 THEN (IF a.n = b.n THEN a ELSE NaN)
         ELSE IF a.d = 0 THEN a ELSE b
    ELSE Norm(a.n * b.d + b.n * a.d, a.d * b.d)

(* a / m for an integer m >= 0: x/0 is inf or -inf by the sign of x, 0/0 is NaN. *)
FDiv(a, m) == Norm(a.n, a.d * m)

(* a <= b; every comparison with NaN is false. *)
FLe(a, b) == ~IsNaN(a) /\ ~IsNaN(b) /\ a.n * b.d <= b.n * a.d

FLt(a, b) == FLe(a, b) /\ a # b

(* int(x): truncation toward zero; int(NaN) raises ValueError, int(inf) OverflowError. *)
Trunc(a) == Sign(a.n) * (Abs(a.n) \div a.d)

RECURSIVE FSum(_)
FSum(s) == IF s = <<>> THEN Float(0) ELSE FAdd(Head(s), FSum(Tail(s)))

(* Series.mean(): the sum over the count, NaN for an empty series. *)
Mean(s) == IF Len(s) = 0 THEN NaN ELSE FDiv(FSum(s), Len(s))

RECURSIVE FMax(_)
FMax(s) ==
    IF Len(s) = 0 THEN NaN
    ELSE IF Len(s) = 1 THEN s[1]
    ELSE LET m == FMax(Tail(s)) IN IF FLe(m, s[1]) THEN s[1] ELSE m

RECURSIVE FMin(_)
FMin(s) ==
    IF Len(s) = 0 THEN NaN
    ELSE IF Len(s) = 1 THEN s[1]
    ELSE LET m == FMin(Tail(s)) IN IF FLe(s[1], m) THEN s[1] ELSE m

Column(t, c) == [i \in 1..Len(t) |-> t[i][c]]

----------------------------------------------------------------------------
(* Price cleaning: listings['price'].replace(r'\$|,', '', regex=True).astype(float) *)

DigitChars == <<"0", "1", "2", "3", "4", "5", "6", "7", "8", "9">>

IsDigit(c) == \E k \in 1..10 : DigitChars[k] = c

DigitValue(c) == (CHOOSE k \in 1..10 : DigitChars[k] = c) - 1

RECURSIVE Pow10(_)
Pow10(k) == IF k = 0 THEN 1 ELSE 10 * Pow10(k - 1)

RECURSIVE DigitsValue(_)
DigitsValue(s) ==
    IF s = <<>> THEN 0
    ELSE 10 * DigitsValue(SubSeq(s, 1, Len(s) - 1)) + DigitValue(s[Len(s)])

IsCurrencyMark(c) == c \in {"$", ","}

StripCurrency(s) == SelectSeq(s, LAMBDA c : ~IsCurrencyMark(c))

(* float(s) on the characters the model has: an optional minus sign, digits with *)
(* at most one point, at least one digit; anything else is a ValueError (ok is   *)
(* FALSE).                                                                       *)
ParseFloat(s) ==
    LET neg == Len(s) > 0 /\ s[1] = "-"
        body == IF neg THEN Tail(s) ELSE s
        dots == {i \in 1..Len(body) : body[i] = "."}
        digits == SelectSeq(body, IsDigit)
        frac == IF dots = {} THEN 0 ELSE Len(body) - (CHOOSE i \in dots : TRUE)
        wellFormed == /\ \A i \in 1..Len(body) : IsDigit(body[i]) \/ body[i] = "."
                      /\ Cardinality(dots) <= 1
                      /\ Len(digits) >= 1
    IN IF wellFormed
       THEN [ok |-> TRUE,
             v |-> Norm((IF neg THEN -1 ELSE 1) * DigitsValue(digits), Pow10(frac))]
       ELSE [ok |-> FALSE, v |-> NaN]

CleanPrice(raw) == ParseFloat(StripCurrency(raw))

----------------------------------------------------------------------------
(* load_data, lines 25-43. *)

ListingsPath == "listings.csv"
ReviewsPath == "reviews.csv"
NeighborhoodsPath == "neighbourhoods.csv"

(* pd.read_csv: the parsed frame, or the exception the file's status names. *)
read_csv(f) ==
    IF f.status = "ok"
    THEN [raised |-> FALSE, cause |-> "", frame |-> [columns |-> f.columns, rows |-> f.rows]]
    ELSE [raised |-> TRUE, cause |-> f.status, frame |-> [columns |-> {}, rows |-> <<>>]]

(* Line 34: a missing column is a KeyError, an unparsable cell a ValueError. *)
clean_price(fr) ==
    IF "price" \notin fr.columns
    THEN [raised |-> TRUE, cause |-> "KeyError: 'price'", frame |-> fr]
    ELSE IF \E i \in 1..Len(fr.rows) : ~CleanPrice(fr.rows[i].price).ok
    THEN [raised |-> TRUE, cause |-> "ValueError: could not convert string to float",
          frame |-> fr]
    ELSE [raised |-> FALSE, cause |-> "",
          frame |-> [fr EXCEPT !.rows =
              [i \in 1..Len(fr.rows) |->
                  [fr.rows[i] EXCEPT !.price = CleanPrice(fr.rows[i].price).v]]]]

(* Line 35: fillna(0). *)
fill_reviews_per_month(fr) ==
    IF "reviews_per_month" \notin fr.columns
    THEN [raised |-> TRUE, cause |-> "KeyError: 'reviews_per_month'", frame |-> fr]
    ELSE [raised |-> FALSE, cause |-> "",
          frame |-> [fr EXCEPT !.rows =
              [i \in 1..Len(fr.rows) |->
                  [fr.rows[i] EXCEPT !.reviews_per_month =
                      IF IsNaN(@) THEN Float(0) ELSE @]]]]

PricePerNightTimes(price, minimum_nights) == Norm(price.n * minimum_nights, price.d)

(* Line 38: listings['price'] / listings['minimum_nights'], a float division. *)
PricePerNight(price, minimum_nights) == FDiv(price, minimum_nights)

WithField(r, f, v) == [g \in DOMAIN r \cup {f} |-> IF g = f THEN v ELSE r[g]]

add_price_per_night(fr) ==
    IF "minimum_nights" \notin fr.columns
    THEN [raised |-> TRUE, cause |-> "KeyError: 'minimum_nights'", frame |-> fr]
    ELSE [raised |-> FALSE, cause |-> "",
          frame |-> [columns |-> fr.columns \cup {"price_per_night"},
                     rows |-> [i \in 1..Len(fr.rows) |->
                         WithField(fr.rows[i], "price_per_night",
                             PricePerNight(fr.rows[i].price, fr.rows[i].minimum_nights))]]]

(* What the try block of lines 28-40 leaves behind: the locals as they stand *)
(* when it ends, by the return at line 40 or by the first exception raised.  *)
Locals(cause, l, r, n) ==
    [raised |-> cause # "", cause |-> cause, listings |-> l, reviews |-> r,
     neighborhoods |-> n]

Frame(x) == DataFrame(x.frame.rows)

(* Lines 38-40. *)
AfterFill(l2, r0, n0, l3) ==
    IF l3.raised THEN Locals(l3.cause, Frame(l2), Frame(r0), Frame(n0))
    ELSE Locals("", Frame(l3), Frame(r0), Frame(n0))

(* Line 35. *)
AfterPrice(l1, r0, n0, l2) ==
    IF l2.raised THEN Locals(l2.cause, Frame(l1), Frame(r0), Frame(n0))
    ELSE AfterFill(l2, r0, n0, add_price_per_night(l2.frame))

(* Line 34. *)
AfterReads(l0, r0, n0, l1) ==
    IF l1.raised THEN Locals(l1.cause, Frame(l0), Frame(r0), Frame(n0))
    ELSE AfterPrice(l1, r0, n0, fill_reviews_per_month(l1.frame))

(* Lines 29-31. *)
Reads(l0, r0, n0) ==
    IF l0.raised THEN Locals(l0.cause, Unset, Unset, Unset)
    ELSE IF r0.raised THEN Locals(r0.cause, Frame(l0), Unset, Unset)
    ELSE IF n0.raised THEN Locals(n0.cause, Frame(l0), Frame(r0), Unset)
    ELSE AfterReads(l0, r0, n0, clean_price(l0.frame))

TryBody(fs) == Reads(read_csv(fs.listings), read_csv(fs.reviews), read_csv(fs.neighborhoods))

ExceptBranchPartial(t) ==
    [value |-> <<None,
                 IF IsFrame(t.reviews) THEN t.reviews ELSE None,
                 IF IsFrame(t.neighborhoods) THEN t.neighborhoods ELSE None>>,
     messages |-> <<<<"Error loading data", t.cause>>>>]

(* Lines 41-43: the except branch reports the cause and returns three Nones. *)
ExceptBranch(t) ==
    [value |-> <<None, None, None>>,
     messages |-> <<<<"Error loading data", t.cause>>>>]

Returned(t) ==
    IF t.raised THEN ExceptBranch(t)
    ELSE [value |-> <<t.listings, t.reviews, t.neighborhoods>>, messages |-> <<>>]

load_data(fs) == Returned(TryBody(fs))

(* @st.cache_data, line 25: the entry stored under the call's arguments is *)
(* returned (with its st.error messages replayed); a miss runs the body    *)
(* and stores what it returned.                                            *)
ArgsKey == <<ListingsPath, ReviewsPath, NeighborhoodsPath>>

IsCached(c, key) == \E e \in c : e.key = key

CachedEntry(c, key) == (CHOOSE e \in c : e.key = key).entry

Miss(c, key, e) == [entry |-> e, hit |-> FALSE, store |-> c \cup {[key |-> key, entry |-> e]}]

CachedCall(c, key, fs) ==
    IF IsCached(c, key)
    THEN [entry |-> CachedEntry(c, key), hit |-> TRUE, store |-> c]
    ELSE Miss(c, key, load_data(fs))

----------------------------------------------------------------------------
(* The queries. *)

betweenExclusive(p, low, high) == FLt(Float(low), p) /\ FLt(p, Float(high))

(* Series.between(low, high): inclusive="both" by default. *)
between(p, low, high) == FLe(Float(low), p) /\ FLe(p, Float(high))

(* The boolean mask of lines 60-61. *)
Mask(rows, nb, pr) ==
    [i \in 1..Len(rows) |->
        rows[i].neighbourhood = nb /\ between(rows[i].price, pr[1], pr[2])]

(* df[mask]: the rows whose mask entry is true, in the frame's order. *)
RECURSIVE Take(_, _)
Take(rows, mask) ==
    IF rows = <<>> THEN <<>>
    ELSE (IF Head(mask) THEN <<Head(rows)>> ELSE <<>>) \o Take(Tail(rows), Tail(mask))

filter_listings(rows, nb, pr) == Take(rows, Mask(rows, nb, pr))

(* Series.unique(): the distinct values in order of first appearance. *)
RECURSIVE unique(_)
unique(s) ==
    IF s = <<>> THEN <<>>
    ELSE LET u == unique(SubSeq(s, 1, Len(s) - 1))
             x == s[Len(s)]
         IN IF \E i \in 1..Len(u) : u[i] = x THEN u ELSE Append(u, x)

(* The neighbourhood names of the model, in lexicographic order (groupby sorts *)
(* its keys).                                                                  *)
NeighbourhoodNames == <<"Allston", "Back Bay", "Fenway">>

RECURSIVE IntSum(_)
IntSum(s) == IF s = <<>> THEN 0 ELSE Head(s) + IntSum(Tail(s))

(* 'count' counts the non-missing cells of the column; no availability_365 cell *)
(* of the model is missing.                                                     *)
count(s) == Len(s)

GroupRowsFirstOnly(rows, key) ==
    LET g == SelectSeq(rows, LAMBDA r : r.neighbourhood = key)
    IN IF g = <<>> THEN g ELSE <<g[1]>>

(* The rows of one group of groupby('neighbourhood'). *)
GroupRows(rows, key) == SelectSeq(rows, LAMBDA r : r.neighbourhood = key)

(* Lines 84-92: one row per key present, keys ascending. *)
summarize(rows) ==
    LET present == SelectSeq(NeighbourhoodNames,
                             LAMBDA k : \E i \in 1..Len(rows) : rows[i].neighbourhood = k)
    IN [j \in 1..Len(present) |->
           LET g == GroupRows(rows, present[j])
           IN [neighbourhood |-> present[j],
               AveragePrice |-> Mean(Column(g, "price")),
               TotalReviews |-> IntSum(Column(g, "number_of_reviews")),
               AvailableListingsCount |-> count(Column(g, "availability_365"))]]

IsDescending(rows) ==
    \A i \in 1..Len(rows) : \A j \in 1..Len(rows) :
        i < j => FLe(rows[j].price, rows[i].price)

sort_values_ascending(rows) ==
    {s \in {[i \in 1..Len(rows) |-> rows[p[i]]] : p \in Permutations(1..Len(rows))} :
        \A i \in 1..Len(s) : \A j \in 1..Len(s) : i < j => FLe(s[i].price, s[j].price)}

(* sort_values(by='price', ascending=False), line 179.  The default kind is  *)
(* quicksort, which is not stable: every ordering of the rows that is        *)
(* descending by price is a possible result.                                 *)
sort_values(rows) ==
    {s \in {[i \in 1..Len(rows) |-> rows[p[i]]] : p \in Permutations(1..Len(rows))} :
        IsDescending(s)}

(* DataFrame.head(n): the first n rows, all of them when there are fewer. *)
head(rows, n) == SubSeq(rows, 1, IF n < Len(rows) THEN n ELSE Len(rows))

TopN == 20
DefaultLow == 50
DefaultHigh == 300
Zoom == 13
Pitch == 45

(* pdk.ViewState(...), lines 164-169. *)
ViewState(rows) ==
    [type |-> "ViewState",
     latitude |-> Mean(Column(rows, "latitude")),
     longitude |-> Mean(Column(rows, "longitude")),
     zoom |-> Zoom, pitch |-> Pitch]

----------------------------------------------------------------------------
(* The files a session can find on disk. *)

ListingColumns ==
    {"index", "neighbourhood", "price", "minimum_nights", "reviews_per_month",
     "number_of_reviews", "availability_365", "latitude", "longitude"}

RawPrices == {<<"$", "0">>, <<"$", "5", "0">>, <<"$", "1", ",", "0", "0", "0">>}

MinimumNights == {0, 2}

SessionNames == {NeighbourhoodNames[1], NeighbourhoodNames[2]}

RawRow(i, nb, price, nights) ==
    [index |-> i - 1, neighbourhood |-> nb, price |-> price, minimum_nights |-> nights,
     reviews_per_month |-> IF i % 2 = 1 THEN NaN ELSE Float(i),
     number_of_reviews |-> i, availability_365 |-> 100 * i,
     latitude |-> Float(42 + i), longitude |-> Float(-(71 + i))]

RawTables ==
    UNION {{[i \in 1..k |-> RawRow(i, f[i][1], f[i][2], f[i][3])] :
               f \in [1..k -> SessionNames \X RawPrices \X MinimumNights]} :
           k \in 0..MaxRows}

CsvFile(columns, rows) == [status |-> "ok", columns |-> columns, rows |-> rows]

MissingFile == [status |-> "FileNotFoundError", columns |-> {}, rows |-> <<>>]

WithoutColumn(f, c) ==
    [f EXCEPT !.columns = @ \ {c},
              !.rows = [i \in 1..Len(f.rows) |->
                           [g \in DOMAIN f.rows[i] \ {c} |-> f.rows[i][g]]]]

SampleListings ==
    CsvFile(ListingColumns, <<RawRow(1, NeighbourhoodNames[1], <<"$", "5", "0">>, 2)>>)

ReviewsFile == CsvFile({"listing_id"}, <<[listing_id |-> 0]>>)

NeighbourhoodsFile == CsvFile({"neighbourhood"}, <<[neighbourhood |-> NeighbourhoodNames[1]]>>)

BrokenListings ==
    {MissingFile,
     CsvFile(ListingColumns, <<RawRow(1, NeighbourhoodNames[1], <<"f", "r", "e", "e">>, 1)>>)}
    \cup {WithoutColumn(SampleListings, c) :
             c \in {"price", "reviews_per_month", "minimum_nights"}}

Worlds ==
    {[listings |-> CsvFile(ListingColumns, t), reviews |-> ReviewsFile,
      neighborhoods |-> NeighbourhoodsFile] : t \in RawTables}
    \cup {[listings |-> l, reviews |-> r, neighborhoods |-> n] :
             l \in BrokenListings \cup {SampleListings},
             r \in {ReviewsFile, MissingFile},
             n \in {NeighbourhoodsFile, MissingFile}}

----------------------------------------------------------------------------
(* The script. *)

Overview == "Boston Airbnb Overview"
Statistics == "Statistics By Neighborhood"
Map == "Listing Map and Price Distribution By Neighborhood"

SliderStops == {50, 300, 1000}

Min2(a, b) == IF a < b THEN a ELSE b
Max2(a, b) == IF a > b THEN a ELSE b

(* Nothing has run yet. *)
Blank ==
    /\ cache = {}
    /\ cache_hit = FALSE
    /\ reviews = Unset
    /\ neighborhoods = Unset
    /\ errors = <<>>
    /\ section = "unset"
    /\ neighborhood = "unset"
    /\ price_range = <<>>
    /\ metrics = Unset
    /\ neighborhood_summary = Unset
    /\ filtered_listings = Unset
    /\ view_state = Unset
    /\ sorted_listings = Unset
    /\ top_listings = Unset
    /\ ops = {}
    /\ exception = "none"

Init ==
    /\ files \in Worlds
    /\ listings = Unset
    /\ top_n = TopN
    /\ Blank

(* Lines 47-51: the cached call and the assignment of the three globals. *)
Assign(c) ==
    /\ cache' = c.store
    /\ cache_hit' = c.hit
    /\ listings' = c.entry.value[1]
    /\ reviews' = c.entry.value[2]
    /\ neighborhoods' = c.entry.value[3]
    /\ errors' = c.entry.messages
    /\ UNCHANGED <<files, top_n>>

LoadStep == Assign(CachedCall(cache, ArgsKey, files))

(* A run with the radio on the overview (its default): lines 65-77. *)
ViewOverview ==
    /\ LoadStep
    /\ section' = Overview
    /\ neighborhood' = "unset"
    /\ price_range' = <<>>
    /\ neighborhood_summary' = Unset
    /\ filtered_listings' = Unset
    /\ view_state' = Unset
    /\ sorted_listings' = Unset
    /\ top_listings' = Unset
    /\ IF IsNone(listings')
       THEN /\ ops' = {"head"}
            /\ exception' = "AttributeError"
            /\ metrics' = Unset
       ELSE /\ ops' = {"head", "mean", "max"}
            /\ exception' = "none"
            /\ metrics' = [type |-> "metrics",
                           mean_price |-> Mean(Column(listings'.rows, "price")),
                           max_price |-> FMax(Column(listings'.rows, "price"))]

(* A run with the radio on the statistics: lines 79-143. *)
ViewStatistics ==
    /\ cache # {}
    /\ LoadStep
    /\ section' = Statistics
    /\ neighborhood' = "unset"
    /\ price_range' = <<>>
    /\ metrics' = Unset
    /\ filtered_listings' = Unset
    /\ view_state' = Unset
    /\ sorted_listings' = Unset
    /\ top_listings' = Unset
    /\ IF IsNone(listings')
       THEN /\ ops' = {"groupby"}
            /\ exception' = "AttributeError"
            /\ neighborhood_summary' = Unset
       ELSE /\ ops' = {"groupby"}
            /\ exception' = "none"
            /\ neighborhood_summary' = DataFrame(summarize(listings'.rows))

(* A run with the radio on the map, the select box on nb and the slider on *)
(* (low, high): lines 145-186.  The widgets show their defaults in the     *)
(* first run that draws them.                                              *)
ViewMap(nb, low, high) ==
    /\ cache # {}
    /\ LoadStep
    /\ section' = Map
    /\ metrics' = Unset
    /\ neighborhood_summary' = Unset
    /\ IF IsNone(listings')
       THEN /\ nb = NeighbourhoodNames[1] /\ low = DefaultLow /\ high = DefaultHigh
            /\ ops' = {"getitem"}
            /\ exception' = "TypeError"
            /\ neighborhood' = "unset"
            /\ price_range' = <<>>
            /\ filtered_listings' = Unset
            /\ view_state' = Unset
            /\ sorted_listings' = Unset
            /\ top_listings' = Unset
       ELSE IF listings'.rows = <<>>
       THEN \* int(listings['price'].min()) is int(NaN)
            /\ nb = NeighbourhoodNames[1] /\ low = DefaultLow /\ high = DefaultHigh
            /\ ops' = {"getitem", "unique", "min"}
            /\ exception' = "ValueError"
            /\ neighborhood' = "None"
            /\ price_range' = <<>>
            /\ filtered_listings' = Unset
            /\ view_state' = Unset
            /\ sorted_listings' = Unset
            /\ top_listings' = Unset
       ELSE LET rows == listings'.rows
                options == unique(Column(rows, "neighbourhood"))
                prices == Column(rows, "price")
                \* the slider widens its bounds to hold the default value
                lowest == Min2(DefaultLow, Trunc(FMin(prices)))
                highest == Max2(DefaultHigh, Trunc(FMax(prices)))
                shown == filter_listings(rows, nb, <<low, high>>)
            IN /\ \E i \in 1..Len(options) : options[i] = nb
               /\ lowest <= low /\ low <= high /\ high <= highest
               /\ section # Map =>
                      nb = options[1] /\ low = DefaultLow /\ high = DefaultHigh
               /\ ops' = {"getitem", "unique", "min", "max", "filter_listings",
                          "sort_values", "head"}
               /\ exception' = "none"
               /\ neighborhood' = nb
               /\ price_range' = <<low, high>>
               /\ filtered_listings' = DataFrame(shown)
               /\ view_state' = ViewState(shown)
               /\ \E s \in sort_values(shown) :
                      /\ sorted_listings' = DataFrame(s)
                      /\ top_listings' = DataFrame(head(s, top_n))

Next ==
    \/ ViewOverview
    \/ ViewStatistics
    \/ \E nb \in SessionNames, low \in SliderStops, high \in SliderStops :
           ViewMap(nb, low, high)

Spec == Init /\ [][Next]_vars

----------------------------------------------------------------------------
(* SpecLoad: load_data on a listings file of one row, whose raw price is any *)
(* string of at most MaxLen of the characters below.                         *)

PriceChars == {"$", ",", "-", ".", "0", "5"}

RawPriceStrings == UNION {[1..k -> PriceChars] : k \in 1..MaxLen}

InitLoad ==
    /\ \E raw \in RawPriceStrings, nights \in MinimumNights :
           files = [listings |-> CsvFile(ListingColumns,
                                         <<RawRow(1, NeighbourhoodNames[1], raw, nights)>>),
                    reviews |-> ReviewsFile,
                    neighborhoods |-> NeighbourhoodsFile]
    /\ listings = Unset
    /\ top_n = TopN
    /\ Blank

NextLoad == ViewOverview

SpecLoad == InitLoad /\ [][NextLoad]_vars

----------------------------------------------------------------------------
(* The queries on their own: a loaded table is drawn, and the query applied. *)

NoFiles == [listings |-> MissingFile, reviews |-> MissingFile, neighborhoods |-> MissingFile]

QueryPrices == {Float(50), [n |-> 151, d |-> 2], Float(300)}

QueryBounds == {49, 50, 75, 300, 301}

(* The sequences of at most MaxQueryRows choices: one choice per row. *)
Choices(S) == UNION {[1..k -> S] : k \in 0..MaxQueryRows}

FilterRow(i, c) == [index |-> i - 1, neighbourhood |-> c[1], price |-> c[2]]

InitFilter ==
    /\ files = NoFiles
    /\ listings \in {DataFrame([i \in 1..Len(f) |-> FilterRow(i, f[i])]) :
                       f \in Choices(SessionNames \X QueryPrices)}
    /\ top_n = TopN
    /\ Blank

(* filter_listings(neighborhood, price_range) on the global listings. *)
CallFilter(nb, low, high) ==
    /\ low <= high
    /\ neighborhood' = nb
    /\ price_range' = <<low, high>>
    /\ filtered_listings' = DataFrame(filter_listings(listings.rows, nb, price_range'))
    /\ UNCHANGED <<files, cache, cache_hit, listings, reviews, neighborhoods, errors,
                   section, metrics, neighborhood_summary, view_state, sorted_listings,
                   top_n, top_listings, ops, exception>>

NextFilter ==
    \E nb \in {NeighbourhoodNames[i] : i \in 1..3}, low \in QueryBounds, high \in QueryBounds :
        CallFilter(nb, low, high)

SpecFilter == InitFilter /\ [][NextFilter]_vars

SummaryPrices == {Float(50), Float(75)}

ReviewCounts == {1, 5}

SummaryRow(i, c) ==
    [index |-> i - 1, neighbourhood |-> c[1], price |-> c[2], number_of_reviews |-> c[3],
     availability_365 |-> 100 * i]

InitSummary ==
    /\ files = NoFiles
    /\ listings \in {DataFrame([i \in 1..Len(f) |-> SummaryRow(i, f[i])]) :
           f \in Choices({NeighbourhoodNames[i] : i \in 1..3} \X SummaryPrices
                             \X ReviewCounts)}
    /\ top_n = TopN
    /\ Blank

CallSummary ==
    /\ neighborhood_summary = Unset
    /\ neighborhood_summary' = DataFrame(summarize(listings.rows))
    /\ UNCHANGED <<files, cache, cache_hit, listings, reviews, neighborhoods, errors,
                   section, neighborhood, price_range, metrics, filtered_listings,
                   view_state, sorted_listings, top_n, top_listings, ops, exception>>

NextSummary == CallSummary

SpecSummary == InitSummary /\ [][NextSummary]_vars

TopRow(i, c) == [index |-> i - 1, price |-> c]

InitTop ==
    /\ files = NoFiles
    /\ listings = Unset
    /\ top_n = TopN
    /\ cache = {}
    /\ cache_hit = FALSE
    /\ reviews = Unset
    /\ neighborhoods = Unset
    /\ errors = <<>>
    /\ section = "unset"
    /\ neighborhood = "unset"
    /\ price_range = <<>>
    /\ metrics = Unset
    /\ neighborhood_summary = Unset
    /\ filtered_listings \in {DataFrame([i \in 1..Len(f) |-> TopRow(i, f[i])]) :
                                f \in Choices(QueryPrices)}
    /\ view_state = Unset
    /\ sorted_listings = Unset
    /\ top_listings = Unset
    /\ ops = {}
    /\ exception = "none"

(* filtered_listings.sort_values(by='price', ascending=False).head(n) *)
CallTop(n) ==
    /\ top_n' = n
    /\ \E s \in sort_values(filtered_listings.rows) :
           /\ sorted_listings' = DataFrame(s)
           /\ top_listings' = DataFrame(head(s, n))
    /\ UNCHANGED <<files, cache, cache_hit, listings, reviews, neighborhoods, errors,
                   section, neighborhood, price_range, metrics, neighborhood_summary,
                   filtered_listings, view_state, ops, exception>>

NextTop == \E n \in 0..(MaxQueryRows + 1) : CallTop(n)

SpecTop == InitTop /\ [][NextTop]_vars

----------------------------------------------------------------------------
(* Properties. *)

Loaded == IsFrame(listings) /\ IsFrame(reviews) /\ IsFrame(neighborhoods)
Absent == IsNone(listings) /\ IsNone(reviews) /\ IsNone(neighborhoods)
HasRun == section # "unset"

(* C1: whatever the three reads and the cleaning steps do, load_data returns  *)
(* (and the script's three globals hold) either three tables or three Nones,  *)
(* never a mix.                                                               *)
C1_AllOrNothing ==
    /\ HasRun => Loaded \/ Absent
    /\ \A e \in cache :
           \/ \A k \in 1..3 : IsFrame(e.entry.value[k])
           \/ \A k \in 1..3 : IsNone(e.entry.value[k])

(* The reads succeeded and a cleaning step raised: all three are None. *)
C1_Witness ==
    /\ HasRun /\ Absent
    /\ files.listings.status = "ok" /\ files.reviews.status = "ok"
    /\ files.neighborhoods.status = "ok"
    /\ errors = <<<<"Error loading data", "ValueError: could not convert string to float">>>>

(* The indices of the rows that filter_listings is to return. *)
Wanted(rows, nb, low, high) ==
    {i \in 1..Len(rows) :
        /\ rows[i].neighbourhood = nb
        /\ low * rows[i].price.d <= rows[i].price.n
        /\ rows[i].price.n <= high * rows[i].price.d}

(* C2: filter_listings returns exactly the rows of the given neighbourhood   *)
(* whose price lies in [low, high], both bounds included, in their original  *)
(* order; with no such row the result is the empty table.                    *)
C2_FilterExact ==
    IsFrame(filtered_listings) =>
        LET rows == listings.rows
            got == filtered_listings.rows
            want == Wanted(rows, neighborhood, price_range[1], price_range[2])
        IN /\ Len(got) = Cardinality(want)
           /\ \A k \in 1..Len(got) :
                  \E i \in want : /\ got[k] = rows[i]
                                  /\ Cardinality({j \in want : j <= i}) = k

(* Two rows returned, one priced exactly low and one exactly high, a third *)
(* row left out.                                                           *)
C2_Witness ==
    /\ IsFrame(filtered_listings)
    /\ Len(listings.rows) = 3
    /\ Len(filtered_listings.rows) = 2
    /\ price_range[1] < price_range[2]
    /\ filtered_listings.rows[1].price = Float(price_range[2])
    /\ filtered_listings.rows[2].price = Float(price_range[1])
    /\ filtered_listings.rows[1].index = 0
    /\ filtered_listings.rows[2].index = 2

RECURSIVE SumOver(_, _, _)
SumOver(S, rows, col) ==
    IF S = {} THEN 0
    ELSE LET i == CHOOSE x \in S : TRUE
         IN (IF col = "price" THEN rows[i].price.n ELSE rows[i][col])
            + SumOver(S \ {i}, rows, col)

TopOfInput(rows, got, n) ==
    /\ Len(got) = IF n < Len(rows) THEN n ELSE Len(rows)
    /\ \A k \in 1..Len(got) : \E i \in 1..Len(rows) : got[k] = rows[i]
    /\ \A j \in 1..Len(got) : \A k \in 1..Len(got) : got[j] = got[k] => j = k
    /\ \A j \in 1..Len(got) : \A k \in 1..Len(got) :
           j < k => got[k].price.n * got[j].price.d <= got[j].price.n * got[k].price.d
    /\ \A i \in 1..Len(rows) :
           (\A k \in 1..Len(got) : got[k] # rows[i]) =>
               \A k \in 1..Len(got) :
                   rows[i].price.n * got[k].price.d <= got[k].price.n * rows[i].price.d

(* C4 as stated: sort descending by price and truncate to n gives min(n, k) *)
(* rows in descending order, rows of equal price in their original order,   *)
(* and never fails when n exceeds k.                                        *)
C4_TopStable ==
    IsFrame(top_listings) =>
        /\ TopOfInput(filtered_listings.rows, top_listings.rows, top_n)
        /\ \A j \in 1..Len(top_listings.rows) : \A k \in 1..Len(top_listings.rows) :
               (j < k /\ top_listings.rows[j].price = top_listings.rows[k].price)
                   => top_listings.rows[j].index < top_listings.rows[k].index
        /\ \A i \in 1..Len(filtered_listings.rows) :
               (\A k \in 1..Len(top_listings.rows) :
                    top_listings.rows[k] # filtered_listings.rows[i]) =>
                   \A k \in 1..Len(top_listings.rows) :
                       top_listings.rows[k].price = filtered_listings.rows[i].price
                           => top_listings.rows[k].index < filtered_listings.rows[i].index

(* C4 amended: the same, with rows of equal price in no particular order. *)
C4_TopUnordered ==
    IsFrame(top_listings) =>
        TopOfInput(filtered_listings.rows, top_listings.rows, top_n)

(* n exceeds the number of rows, all rows are returned, and two rows of equal *)
(* price come out against their original order.                               *)
C4_Witness ==
    /\ IsFrame(top_listings)
    /\ top_n > Len(filtered_listings.rows)
    /\ Len(top_listings.rows) = Len(filtered_listings.rows)
    /\ Len(top_listings.rows) = 3
    /\ top_listings.rows[1].price = top_listings.rows[2].price
    /\ top_listings.rows[1].index > top_listings.rows[2].index
    /\ top_listings.rows[3].price # top_listings.rows[2].price

(* C6: when the filter selects no row, the map view's aggregates do not fail *)
(* and are an explicit "no data" value, not NaN; the top-20 is empty.        *)
C6_EmptySelectionHandled ==
    (section = Map /\ IsFrame(filtered_listings) /\ filtered_listings.rows = <<>>) =>
        /\ exception = "none"
        /\ view_state.type = "ViewState"
        /\ ~IsNaN(view_state.latitude)
        /\ ~IsNaN(view_state.longitude)
        /\ IsFrame(top_listings) /\ top_listings.rows = <<>>

(* C7: a listing with minimum_nights = 0 gets one price_per_night that does *)
(* not depend on its price; with minimum_nights > 0 it is price divided by  *)
(* minimum_nights.                                                          *)
C7_PricePerNightDefined ==
    IsFrame(listings) =>
        \A i \in 1..Len(listings.rows) :
            LET r == listings.rows[i]
            IN /\ r.minimum_nights > 0 =>
                      /\ r.price_per_night.d > 0
                      /\ r.price_per_night.n * r.minimum_nights * r.price.d
                             = r.price.n * r.price_per_night.d
               /\ r.minimum_nights = 0 =>
                      \A j \in 1..Len(listings.rows) :
                          listings.rows[j].minimum_nights = 0 =>
                              listings.rows[j].price_per_night = r.price_per_night

(* C8: after a successful load every price is >= 0. *)
C8_PriceNonNegative ==
    IsFrame(listings) =>
        \A i \in 1..Len(listings.rows) :
            listings.rows[i].price.d > 0 /\ listings.rows[i].price.n >= 0

(* C9: once load_data has returned three Nones, the failure is reported with *)
(* its cause and no operation is invoked on the absent tables.               *)
C9_LoadFailureTerminal ==
    (HasRun /\ Absent) =>
        /\ Len(errors) = 1 /\ errors[1][1] = "Error loading data" /\ errors[1][2] # ""
        /\ ops = {}
        /\ exception = "none"

PricePerNightHolds(t) ==
    \A i \in 1..Len(t.rows) :
        t.rows[i].minimum_nights > 0 =>
            /\ t.rows[i].price_per_night.d > 0
            /\ t.rows[i].price_per_night.n * t.rows[i].minimum_nights * t.rows[i].price.d
                   = t.rows[i].price.n * t.rows[i].price_per_night.d

(* C10: after a successful load no run changes the three tables, whatever   *)
(* section, neighbourhood and price range it is given, and price_per_night  *)
(* is price / minimum_nights in every row with minimum_nights > 0.          *)
C10_TablesImmutable ==
    /\ [][Loaded => (listings' = listings /\ reviews' = reviews
                     /\ neighborhoods' = neighborhoods)]_vars
    /\ [](Loaded => PricePerNightHolds(listings))

(* A later run (served from the cache) that filtered and sorted two listings, *)
(* one of them with minimum_nights = 2.                                       *)
C10_Witness ==
    /\ Loaded /\ cache_hit /\ section = Map
    /\ IsFrame(sorted_listings) /\ Len(sorted_listings.rows) = 2
    /\ listings.rows[1].minimum_nights = 2
    /\ listings.rows[1].price_per_night = Float(25)

====
